---------------------------- MODULE Spec2Model ----------------------------
(***************************************************************************)
(* Model of CuttingSIM: the cylinder generator (CylinderGenerator) and the *)
(* software-rendered preview widget (CutterVisualizer).                    *)
(*                                                                         *)
(* Numbers.  The program computes in `float`.  The model uses fixed point  *)
(* with three decimals: a length of 1 mm, a zoom factor of 1.0, a cosine   *)
(* of 1.0 and an angle of 1 rad are all the integer 1000.  Products are    *)
(* rounded to the nearest unit, as a float product is rounded to the       *)
(* nearest representable value.  Camera angles are kept in hundredths of   *)
(* a radian, the amount one pixel of drag adds.                            *)
(***************************************************************************)
EXTENDS Integers, Sequences, FiniteSets, TLC

VARIABLES
    params_,        \* CylinderGenerator::params_
    genCall,        \* the last generator call and its arguments
    genResult,      \* the mesh that call returned
    targetMesh_,    \* CutterVisualizer: the three mesh slots (shared_ptr)
    cutterMesh_,
    resultMesh_,
    visualMode_,    \* CutterVisualizer::visualMode_
    scale_,         \* zoom factor
    offset_,        \* 2D pan offset (QPoint)
    lastMousePos_,
    isDragging_,
    rotX_,          \* pitch, in hundredths of a radian
    rotY_,          \* yaw, in hundredths of a radian
    width,          \* QWidget::width()
    height,         \* QWidget::height()
    updatePending,  \* update() was called and no paintEvent has run since
    frame,          \* what the handler that just returned painted
    pointer,        \* where the pointer is
    buttons,        \* the mouse buttons that are held down
    qt6,            \* the build: QT_VERSION >= 6.0.0
    wheelCount,     \* number of wheel events handled so far
    plusOnly,       \* every wheel event so far was one tick up
    lastDelta,      \* the ticks of the last wheel event (0: none yet)
    boolCall,       \* the last call of BooleanOperator::execute or difference
    pieceCall,      \* the last call of BooleanOperator::getCutPiece
    mwTargetMesh_,  \* MainWindow::targetMesh_ (shared_ptr)
    mwCutterMesh_,  \* MainWindow::cutterMesh_
    mwResultMesh_,  \* MainWindow::resultMesh_
    cutPieceMesh_,  \* MainWindow::cutPieceMesh_
    cutterPosition_,
    spinX_,         \* the values of the three position spin boxes
    spinY_,
    spinZ_,
    stepSize_,
    btnCut_,        \* the buttons: enabled or not
    btnSave_,
    btnSavePiece_,
    comboVisualMode_,   \* current index of the mode combo box
    event,          \* the window handler that has just returned and what it did
    moveCount       \* number of position edits and step presses so far

genVars == <<params_, genCall, genResult>>

slotVars == <<targetMesh_, cutterMesh_, resultMesh_>>

cameraVars == <<scale_, offset_, lastMousePos_, isDragging_, rotX_, rotY_>>

mouseVars == <<pointer, buttons>>

wheelVars == <<wheelCount, plusOnly, lastDelta>>

viewVars == <<slotVars, visualMode_, cameraVars, width, height, updatePending,
              frame, mouseVars, qt6, wheelVars>>

boolVars == <<boolCall, pieceCall>>

meshVars == <<mwTargetMesh_, mwCutterMesh_, mwResultMesh_, cutPieceMesh_>>

positionVars == <<cutterPosition_, spinX_, spinY_, spinZ_>>

buttonVars == <<btnCut_, btnSave_, btnSavePiece_>>

winVars == <<meshVars, positionVars, stepSize_, buttonVars, comboVisualMode_,
             event, moveCount>>

hostVars == <<boolVars, winVars>>

vars == <<genVars, viewVars, hostVars>>

-----------------------------------------------------------------------------
(* Bounds of the explored inputs *)

\* largest segment count tried besides the default 64
MaxSegments == 5

-----------------------------------------------------------------------------
(* Fixed-point arithmetic standing for float *)

Unit == 1000

Abs(a) == IF a < 0 THEN -a ELSE a

Min2(a, b) == IF a < b THEN a ELSE b

Max2(a, b) == IF a > b THEN a ELSE b

\* quotient rounded to the nearest integer, for any sign of a and positive b
RoundDiv(a, b) == IF a >= 0 THEN (2 * a + b) \div (2 * b)
                  ELSE -((2 * (-a) + b) \div (2 * b))

\* product of two fixed-point numbers
Mul(a, b) == RoundDiv(a * b, Unit)

\* std::clamp
Clamp(v, lo, hi) == IF v < lo THEN lo ELSE IF hi < v THEN hi ELSE v

\* MR::PI_F, in millionths, and its double
PiMicro == 3141593

TwoPiMicro == 2 * PiMicro

HalfPi == RoundDiv(PiMicro, 2 * Unit)

Pi == RoundDiv(PiMicro, Unit)

TwoPi == RoundDiv(TwoPiMicro, Unit)

\* cosine of an angle x in [0, pi/2], by its Taylor polynomial up to x^8
CosSmall(x) ==
    LET x2 == Mul(x, x)
        x4 == Mul(x2, x2)
        x6 == Mul(x4, x2)
        x8 == Mul(x6, x2)
    IN  Clamp(Unit - RoundDiv(x2, 2) + RoundDiv(x4, 24)
                   - RoundDiv(x6, 720) + RoundDiv(x8, 40320), 0, Unit)

\* std::cos of an angle a (thousandths of a radian), any sign and size
Cos(a) ==
    LET r == a % TwoPi
        h == IF r > Pi THEN TwoPi - r ELSE r
    IN  IF h > HalfPi THEN -CosSmall(Pi - h) ELSE CosSmall(h)

\* std::sin
Sin(a) == Cos(a - HalfPi)

RECURSIVE AcosSearch(_, _, _)
\* bisection for the angle in [lo, hi] whose cosine is c (Cos decreases there)
AcosSearch(lo, hi, c) ==
    IF hi - lo <= 1
    THEN IF Abs(Cos(lo) - c) <= Abs(Cos(hi) - c) THEN lo ELSE hi
    ELSE LET mid == (lo + hi) \div 2
         IN  IF Cos(mid) > c THEN AcosSearch(mid, hi, c)
             ELSE AcosSearch(lo, mid, c)

\* std::acos of c in [-1, 1]
Acos(c) == AcosSearch(0, Pi, c)

RECURSIVE SqrtSearch(_, _, _)
\* bisection for the largest r in [lo, hi] with r * r <= n
SqrtSearch(lo, hi, n) ==
    IF hi - lo <= 1
    THEN IF hi * hi <= n THEN hi ELSE lo
    ELSE LET mid == (lo + hi) \div 2
         IN  IF mid * mid <= n THEN SqrtSearch(mid, hi, n)
             ELSE SqrtSearch(lo, mid, n)

\* std::sqrt of a non-negative integer below 2^30, rounded down
Sqrt(n) == SqrtSearch(0, 32767, n)

-----------------------------------------------------------------------------
(* MR::Vector3f, MR::Matrix3f, MR::AffineXf3f *)

Vec(x, y, z) == [x |-> x, y |-> y, z |-> z]

VAdd(a, b) == Vec(a.x + b.x, a.y + b.y, a.z + b.z)

\* dot product of fixed-point vectors
Dot(a, b) == Mul(a.x, b.x) + Mul(a.y, b.y) + Mul(a.z, b.z)

\* cross product of fixed-point vectors
Cross(a, b) == Vec(Mul(a.y, b.z) - Mul(a.z, b.y),
                   Mul(a.z, b.x) - Mul(a.x, b.z),
                   Mul(a.x, b.y) - Mul(a.y, b.x))

\* Vector3f::length
Length(a) == Sqrt(a.x * a.x + a.y * a.y + a.z * a.z)

\* Vector3f::normalized: the zero vector stays the zero vector
Normalized(a) ==
    LET len == Length(a)
    IN  IF len <= 0 THEN Vec(0, 0, 0)
        ELSE Vec(RoundDiv(a.x * Unit, len), RoundDiv(a.y * Unit, len),
                 RoundDiv(a.z * Unit, len))

\* Matrix3f::rotation(axis, angle): the rows of the axis-angle matrix
Rotation(axis, angle) ==
    LET u  == Normalized(axis)
        c  == Cos(angle)
        s  == Sin(angle)
        oc == Unit - c
    IN  << Vec(c + Mul(oc, Mul(u.x, u.x)),
               Mul(oc, Mul(u.x, u.y)) - Mul(s, u.z),
               Mul(oc, Mul(u.x, u.z)) + Mul(s, u.y)),
           Vec(Mul(oc, Mul(u.y, u.x)) + Mul(s, u.z),
               c + Mul(oc, Mul(u.y, u.y)),
               Mul(oc, Mul(u.y, u.z)) - Mul(s, u.x)),
           Vec(Mul(oc, Mul(u.z, u.x)) - Mul(s, u.y),
               Mul(oc, Mul(u.z, u.y)) + Mul(s, u.x),
               c + Mul(oc, Mul(u.z, u.z))) >>

IdentityMatrix == << Vec(Unit, 0, 0), Vec(0, Unit, 0), Vec(0, 0, Unit) >>

\* AffineXf3f(A, b) applied to a point: A * p + b
ApplyXf(xf, p) == Vec(Dot(xf.A[1], p) + xf.b.x,
                      Dot(xf.A[2], p) + xf.b.y,
                      Dot(xf.A[3], p) + xf.b.z)

\* AffineXf3f::translation
Translation(b) == [A |-> IdentityMatrix, b |-> b]

-----------------------------------------------------------------------------
(* MR::Mesh: the vertex coordinates in VertId order (VertId v is points[v+1]) *)
(* and the triangles as triples of VertIds, in FaceId order                  *)

EmptyMesh == [points |-> << >>, tris |-> << >>]

\* a transform that moves the vertices and leaves the topology behind
TransformPointsAlone(mesh, xf) ==
    [points |-> [i \in 1..Len(mesh.points) |-> ApplyXf(xf, mesh.points[i])],
     tris   |-> << >>]

\* Mesh::transform
Transform(mesh, xf) ==
    [mesh EXCEPT !.points = [i \in 1..Len(mesh.points) |-> ApplyXf(xf, mesh.points[i])]]

-----------------------------------------------------------------------------
(* CylinderGenerator *)

\* CylinderGenerator::CylinderGenerator
DefaultParams == [length |-> 50 * Unit, diameter |-> 6 * Unit, segments |-> 64]

\* CylinderParams::getRadius
getRadius(p) == RoundDiv(p.diameter, 2)

\* a ring angle that spans half a turn, PI_F * i / segments
RingAngleHalfTurn(i, segments) == RoundDiv(RoundDiv(PiMicro * i, segments), Unit)

\* the angle of ring vertex i, 2.0f * PI_F * i / segments
RingAngle(i, segments) == RoundDiv(RoundDiv(TwoPiMicro * i, segments), Unit)

\* one ring of `segments` vertices at height z
Ring(radius, segments, z) ==
    [k \in 1..segments |->
        Vec(Mul(radius, Cos(RingAngle(k - 1, segments))),
            Mul(radius, Sin(RingAngle(k - 1, segments))), z)]

\* the triangles of one fan or strip, one entry per i in 0..segments-1
TopCap(segments) ==
    [k \in 1..segments |-> <<0, 2 + (k % segments), 2 + (k - 1)>>]

BottomCap(segments) ==
    [k \in 1..segments |->
        <<1, 2 + segments + (k - 1), 2 + segments + (k % segments)>>]

\* a side wall that pushes only the first triangle of each quad
SideOnePerSegment(segments) ==
    [k \in 1..segments |-> <<2 + (k - 1), 2 + (k % segments), 2 + segments + (k - 1)>>]

\* two triangles per i, pushed one after the other
Side(segments) ==
    [j \in 1..(2 * segments) |->
        LET i    == (j - 1) \div 2
            next == (i + 1) % segments
        IN  IF j % 2 = 1
            THEN <<2 + i, 2 + next, 2 + segments + i>>
            ELSE <<2 + next, 2 + segments + next, 2 + segments + i>>]

\* the vertices and triangles generate() builds once its guard has passed
CylinderMesh(radius, halfLength, segments) ==
    [points |-> << Vec(0, 0, halfLength), Vec(0, 0, -halfLength) >>
                \o Ring(radius, segments, halfLength)
                \o Ring(radius, segments, -halfLength),
     tris   |-> TopCap(segments) \o BottomCap(segments) \o Side(segments)]

\* generate() with a guard that lets two segments through
generateLooseGuard(p) ==
    IF p.segments < 2 \/ getRadius(p) <= 0 \/ p.length <= 0
    THEN EmptyMesh
    ELSE CylinderMesh(getRadius(p), RoundDiv(p.length, 2), p.segments)

\* CylinderGenerator::generate
generate(p) ==
    LET radius     == getRadius(p)
        halfLength == RoundDiv(p.length, 2)
        segments   == p.segments
    IN  IF segments < 3 \/ radius <= 0 \/ p.length <= 0
        THEN EmptyMesh
        ELSE CylinderMesh(radius, halfLength, segments)

\* generateAt's transform without the std::abs around the dot product
PlacementXfNoAbs(position, direction) ==
    LET defaultDir == Vec(0, 0, Unit)
        targetDir  == Normalized(direction)
    IN  IF Dot(defaultDir, targetDir) * 10 > 9999
        THEN Translation(position)
        ELSE [A |-> Rotation(Normalized(Cross(defaultDir, targetDir)),
                             Acos(Clamp(Dot(defaultDir, targetDir), -Unit, Unit))),
              b |-> position]

\* the rigid transform generateAt builds for a non-empty mesh
PlacementXf(position, direction) ==
    LET defaultDir == Vec(0, 0, Unit)
        targetDir  == Normalized(direction)
    IN  IF Abs(Dot(defaultDir, targetDir)) * 10 > 9999
        THEN Translation(position)
        ELSE LET rotationAxis == Normalized(Cross(defaultDir, targetDir))
                 cosAngle     == Dot(defaultDir, targetDir)
                 angle        == Acos(Clamp(cosAngle, -Unit, Unit))
             IN  [A |-> Rotation(rotationAxis, angle), b |-> position]

\* CylinderGenerator::generateAt
generateAt(p, position, direction) ==
    LET mesh == generate(p)
    IN  IF Len(mesh.points) = 0 THEN mesh
        ELSE Transform(mesh, PlacementXf(position, direction))

\* the record of a generator call: none yet
NoCall == [op |-> "none", params |-> DefaultParams,
           position |-> Vec(0, 0, 0), direction |-> Vec(0, 0, Unit)]

-----------------------------------------------------------------------------
(* CutterVisualizer: slots, camera, painting *)

\* std::shared_ptr<MR::Mesh>: null, or a mesh
Null == [null |-> TRUE, mesh |-> EmptyMesh]

Ptr(mesh) == [null |-> FALSE, mesh |-> mesh]

QPoint(x, y) == [x |-> x, y |-> y]

\* enum class VisualMode
VisualModes == {"Original", "Cutter", "Result", "All"}

\* conversion of a float (in thousandths) to int: the fraction is dropped
ToInt(v) == IF v >= 0 THEN v \div Unit ELSE -((-v) \div Unit)

\* std::pow(1.1f, delta) for a whole number of ticks
RECURSIVE Pow11(_)
Pow11(delta) ==
    IF delta = 0 THEN Unit
    ELSE IF delta > 0 THEN Mul(Pow11(delta - 1), 1100)
    ELSE RoundDiv(Unit * Unit, Pow11(-delta))

\* the zoom limits of wheelEvent
MinZoom == 100

MaxZoom == 10000

\* one pixel of drag, in hundredths of a radian (0.01f)
DragStep == 1

\* the sines and cosines renderMesh and drawAxes compute from rotX_ and rotY_
Trig(rx, ry) == [cx |-> Cos(10 * rx), sx |-> Sin(10 * rx),
                 cy |-> Cos(10 * ry), sy |-> Sin(10 * ry)]

\* renderMesh's rotate lambda: about X by rotX_, then about Y by rotY_
Rotate(v, t) ==
    LET y1 == Mul(v.y, t.cx) - Mul(v.z, t.sx)
        z1 == Mul(v.y, t.sx) + Mul(v.z, t.cx)
        x2 == Mul(v.x, t.cy) + Mul(z1, t.sy)
        z2 == -Mul(v.x, t.sy) + Mul(z1, t.cy)
    IN  Vec(x2, y1, z2)

\* the scale renderMesh projects with
MeshScale(w, h, scale) == Mul(RoundDiv(Min2(w, h) * Unit * 10, 1500), scale)

\* renderMesh's project lambda
Project(v, t, center, baseScale) ==
    LET r == Rotate(v, t)
    IN  QPoint(ToInt(center.x * Unit + Mul(r.x, baseScale)),
               ToInt(center.y * Unit - Mul(r.y, baseScale)))

\* the depth key of face f: the rotated z of the centroid
FaceDepth(mesh, f, t) ==
    LET tri == mesh.tris[f]
        v0  == mesh.points[tri[1] + 1]
        v1  == mesh.points[tri[2] + 1]
        v2  == mesh.points[tri[3] + 1]
        c   == Vec(RoundDiv(v0.x + v1.x + v2.x, 3), RoundDiv(v0.y + v1.y + v2.y, 3),
                   RoundDiv(v0.z + v1.z + v2.z, 3))
    IN  Rotate(c, t).z

\* the projected corners of face f
FacePoints(mesh, f, t, center, baseScale) ==
    [k \in 1..3 |-> Project(mesh.points[mesh.tris[f][k] + 1], t, center, baseScale)]

\* the orders std::sort may leave n faces in: depth descending, ties in any order
SortedOrders(depth, n) ==
    { p \in [1..n -> 1..n] :
        /\ \A i, j \in 1..n : i # j => p[i] # p[j]
        /\ \A i \in 1..(n - 1) : depth[p[i]] >= depth[p[i + 1]] }

\* the drawing commands of one renderMesh call, for one order of the faces:
\* every fill, then every outline, each with the scale it was projected with
RenderOps(slot, faces, order, baseScale) ==
    LET n == Len(faces)
    IN  [i \in 1..n |-> [kind |-> "fill", slot |-> slot, face |-> order[i],
                         scale |-> baseScale,
                         depth |-> faces[order[i]].depth, pts |-> faces[order[i]].points]]
        \o [i \in 1..n |-> [kind |-> "outline", slot |-> slot, face |-> order[i],
                            scale |-> baseScale,
                            depth |-> faces[order[i]].depth, pts |-> faces[order[i]].points]]

\* CutterVisualizer::renderMesh: the command sequences it may issue
renderMesh(slot, mesh, rx, ry, w, h, off, scale) ==
    LET baseScale == MeshScale(w, h, scale)
        center    == QPoint(w \div 2 + off.x, h \div 2 + off.y)
        t         == Trig(rx, ry)
        n         == Len(mesh.tris)
        faces     == [f \in 1..n |-> [depth  |-> FaceDepth(mesh, f, t),
                                      points |-> FacePoints(mesh, f, t, center, baseScale)]]
        depth     == [f \in 1..n |-> faces[f].depth]
    IN  { RenderOps(slot, faces, order, baseScale) : order \in SortedOrders(depth, n) }

\* the axis length drawAxes uses: 80.0f * scale_
AxisLength(scale) == Mul(80 * Unit, scale)

\* CutterVisualizer::drawAxes: the three axis lines from the corner origin
drawAxes(rx, ry, h, scale) ==
    LET axisLength == AxisLength(scale)
        origin     == QPoint(30, h - 30)
        t          == Trig(rx, ry)
        project(v) ==
            LET y1 == Mul(v.y, t.cx) - Mul(v.z, t.sx)
                z1 == Mul(v.y, t.sx) + Mul(v.z, t.cx)
                x2 == Mul(v.x, t.cy) + Mul(z1, t.sy)
            IN  QPoint(ToInt(origin.x * Unit + x2), ToInt(origin.y * Unit - y1))
    IN  [kind |-> "axes", axisLength |-> axisLength, origin |-> origin,
         xEnd |-> project(Vec(axisLength, 0, 0)),
         yEnd |-> project(Vec(0, axisLength, 0)),
         zEnd |-> QPoint(origin.x, ToInt(origin.y * Unit - Mul(axisLength, 700)))]

\* Mesh::computeBoundingBox, reduced to the largest of the three extents
MaxExtent(mesh) ==
    LET n  == Len(mesh.points)
        xs == {mesh.points[i].x : i \in 1..n}
        ys == {mesh.points[i].y : i \in 1..n}
        zs == {mesh.points[i].z : i \in 1..n}
        hi(S) == CHOOSE a \in S : \A b \in S : b <= a
        lo(S) == CHOOSE a \in S : \A b \in S : a <= b
    IN  IF n = 0 THEN 0 ELSE
        Max2(hi(xs) - lo(xs), Max2(hi(ys) - lo(ys), hi(zs) - lo(zs)))

\* the slots paintEvent looks at under a mode, in the order it looks at them
SlotNames == <<"target", "cutter", "result">>

ModeOf(slot) == CASE slot = "target" -> "Original"
                  [] slot = "cutter" -> "Cutter"
                  [] slot = "result" -> "Result"

\* a variant of the mode test in which All shows no cutter
EligibleNoCutterInAll(slot, mode) ==
    mode = ModeOf(slot) \/ (mode = "All" /\ slot # "cutter")

\* the mode test of paintEvent
Eligible(slot, mode) == mode = ModeOf(slot) \/ mode = "All"

\* the same test with the points of a null pointer read as "some"
HasPointsUnchecked(ptr) == ptr.null \/ Len(ptr.mesh.points) > 0

\* the test `mesh && !mesh->points.empty()`; the pointer is dereferenced
\* only when it is not null
HasPoints(ptr) == ~ptr.null /\ Len(ptr.mesh.points) > 0

\* the frame left by a handler that paints nothing
NoFrame == [painted |-> FALSE, placeholder |-> FALSE, fault |-> FALSE,
            maxBound |-> 0, finalScale |-> 0, rendered |-> << >>, ops |-> << >>]

\* CutterVisualizer::paintEvent: the frames it may paint in the current state
PaintFrames(slot, mode, rx, ry, w, h, off, scale) ==
    LET shown(name)  == Eligible(name, mode) /\ HasPoints(slot[name])
        hasMesh      == \E i \in 1..3 : shown(SlotNames[i])
        bound(name)  == IF shown(name) THEN MaxExtent(slot[name].mesh) ELSE 0
        maxBound     == Max2(50 * Unit, Max2(bound("target"),
                                             Max2(bound("cutter"), bound("result"))))
        baseScale    == RoundDiv(Min2(w, h) * Unit * Unit, RoundDiv(maxBound * 3, 2))
        finalScale   == Mul(baseScale, scale)
        \* a null pointer that passed the emptiness test was dereferenced
        fault        == \E i \in 1..3 : shown(SlotNames[i]) /\ slot[SlotNames[i]].null
        render(name) == IF shown(name)
                        THEN renderMesh(name, slot[name].mesh, rx, ry, w, h, off, scale)
                        ELSE { << >> }
        rendered     == SelectSeq(SlotNames, shown)
    IN  IF ~hasMesh
        THEN { [NoFrame EXCEPT !.painted = TRUE, !.placeholder = TRUE,
                               !.maxBound = maxBound,
                               !.ops = << [kind |-> "text"] >>] }
        ELSE { [painted |-> TRUE, placeholder |-> FALSE, fault |-> fault,
                maxBound |-> maxBound, finalScale |-> finalScale,
                rendered |-> rendered,
                ops |-> << drawAxes(rx, ry, h, scale) >> \o o1 \o o2 \o o3] :
               o1 \in render("target"), o2 \in render("cutter"), o3 \in render("result") }

\* the three slots as one record
Slots == [target |-> targetMesh_, cutter |-> cutterMesh_, result |-> resultMesh_]

\* CutterVisualizer::CutterVisualizer and the member initialisers
InitView ==
    /\ targetMesh_ = Null
    /\ cutterMesh_ = Null
    /\ resultMesh_ = Null
    /\ visualMode_ = "All"
    /\ scale_ = Unit
    /\ width = 640
    /\ height = 480
    /\ offset_ = QPoint(320, 240)
    /\ lastMousePos_ = QPoint(0, 0)
    /\ isDragging_ = FALSE
    /\ rotX_ = 0
    /\ rotY_ = 0
    /\ updatePending = FALSE
    /\ frame = NoFrame
    /\ pointer = QPoint(0, 0)
    /\ buttons = {}
    /\ wheelCount = 0
    /\ plusOnly = TRUE
    /\ lastDelta = 0

\* QWidget::update(): a paint is scheduled; the handler itself paints nothing
Update ==
    /\ updatePending' = TRUE
    /\ frame' = NoFrame

\* a handler that neither paints nor asks for a repaint
NoUpdate ==
    /\ frame' = NoFrame
    /\ UNCHANGED updatePending

\* a setTargetMesh that also drops the result
setTargetMeshDropsResult(mesh) ==
    /\ targetMesh_' = mesh
    /\ resultMesh_' = Null
    /\ Update
    /\ UNCHANGED <<genVars, hostVars, cutterMesh_, visualMode_, cameraVars,
                   width, height, mouseVars, qt6, wheelVars>>

\* CutterVisualizer::setTargetMesh
setTargetMesh(mesh) ==
    /\ targetMesh_' = mesh
    /\ Update
    /\ UNCHANGED <<genVars, hostVars, cutterMesh_, resultMesh_, visualMode_, cameraVars,
                   width, height, mouseVars, qt6, wheelVars>>

\* CutterVisualizer::setCutterMesh
setCutterMesh(mesh) ==
    /\ cutterMesh_' = mesh
    /\ Update
    /\ UNCHANGED <<genVars, hostVars, targetMesh_, resultMesh_, visualMode_, cameraVars,
                   width, height, mouseVars, qt6, wheelVars>>

\* CutterVisualizer::setResultMesh
setResultMesh(mesh) ==
    /\ resultMesh_' = mesh
    /\ Update
    /\ UNCHANGED <<genVars, hostVars, targetMesh_, cutterMesh_, visualMode_, cameraVars,
                   width, height, mouseVars, qt6, wheelVars>>

\* CutterVisualizer::clearAll
clearAll ==
    /\ targetMesh_' = Null
    /\ cutterMesh_' = Null
    /\ resultMesh_' = Null
    /\ Update
    /\ UNCHANGED <<genVars, hostVars, visualMode_, cameraVars, width, height, mouseVars,
                   qt6, wheelVars>>

\* CutterVisualizer::setVisualMode
setVisualMode(mode) ==
    /\ visualMode_' = mode
    /\ Update
    /\ UNCHANGED <<genVars, hostVars, slotVars, cameraVars, width, height, mouseVars,
                   qt6, wheelVars>>

\* CutterVisualizer::updateView
updateView ==
    /\ Update
    /\ UNCHANGED <<genVars, hostVars, slotVars, visualMode_, cameraVars, width, height,
                   mouseVars, qt6, wheelVars>>

\* CutterVisualizer::paintEvent, run by the event loop for a pending update
\* or for an expose
paintEvent ==
    /\ \E f \in PaintFrames(Slots, visualMode_, rotX_, rotY_, width, height,
                            offset_, scale_) : frame' = f
    /\ updatePending' = FALSE
    /\ UNCHANGED <<genVars, hostVars, slotVars, visualMode_, cameraVars, width, height,
                   mouseVars, qt6, wheelVars>>

\* a resizeEvent that keeps the pan offset
resizeEventKeepsPan(w, h) ==
    /\ width' = w
    /\ height' = h
    /\ NoUpdate
    /\ UNCHANGED <<genVars, hostVars, slotVars, visualMode_, cameraVars, mouseVars, qt6,
                   wheelVars>>

\* CutterVisualizer::resizeEvent
resizeEvent(w, h) ==
    /\ width' = w
    /\ height' = h
    /\ offset_' = QPoint(0, 0)
    /\ NoUpdate
    /\ UNCHANGED <<genVars, hostVars, slotVars, visualMode_, scale_, lastMousePos_,
                   isDragging_, rotX_, rotY_, mouseVars, qt6, wheelVars>>

\* the test of mousePressEvent: Qt 6 looks at the buttons held after the
\* event, Qt 5 at the button that caused it
PressIsLeft(button, held) ==
    IF qt6 THEN "Left" \in held ELSE button = "Left"

\* CutterVisualizer::mousePressEvent
mousePressEvent(button) ==
    /\ button \notin buttons
    /\ buttons' = buttons \cup {button}
    /\ IF PressIsLeft(button, buttons')
       THEN /\ isDragging_' = TRUE
            /\ lastMousePos_' = pointer
       ELSE UNCHANGED <<isDragging_, lastMousePos_>>
    /\ NoUpdate
    /\ UNCHANGED <<genVars, hostVars, slotVars, visualMode_, scale_, offset_, rotX_, rotY_,
                   width, height, pointer, qt6, wheelVars>>

\* the angles stay within the explored range
InAngleRange(a, bound) == -bound <= a /\ a <= bound

\* a drag that turns the wrong way about the vertical axis
DragDeltaMirrored(pos) == QPoint(DragStep * (lastMousePos_.x - pos.x),
                                 DragStep * (pos.y - lastMousePos_.y))

\* the rotation a move of the pointer to pos adds while dragging
DragDelta(pos) == QPoint(DragStep * (pos.x - lastMousePos_.x),
                         DragStep * (pos.y - lastMousePos_.y))

\* CutterVisualizer::mouseMoveEvent
mouseMoveEvent(pos, maxAngle) ==
    /\ pointer' = pos
    /\ IF isDragging_
       THEN /\ InAngleRange(rotY_ + DragDelta(pos).x, maxAngle)
            /\ InAngleRange(rotX_ + DragDelta(pos).y, maxAngle)
            /\ rotY_' = rotY_ + DragDelta(pos).x
            /\ rotX_' = rotX_ + DragDelta(pos).y
            /\ lastMousePos_' = pos
            /\ Update
       ELSE /\ UNCHANGED <<rotX_, rotY_, lastMousePos_>>
            /\ NoUpdate
    /\ UNCHANGED <<genVars, hostVars, slotVars, visualMode_, scale_, offset_, isDragging_,
                   width, height, buttons, qt6, wheelVars>>

\* the test of mouseReleaseEvent
ReleaseIsLeft(button, held) ==
    IF qt6 THEN "Left" \notin held ELSE button = "Left"

\* CutterVisualizer::mouseReleaseEvent
mouseReleaseEvent(button) ==
    /\ button \in buttons
    /\ buttons' = buttons \ {button}
    /\ IF ReleaseIsLeft(button, buttons')
       THEN isDragging_' = FALSE
       ELSE UNCHANGED isDragging_
    /\ NoUpdate
    /\ UNCHANGED <<genVars, hostVars, slotVars, visualMode_, scale_, offset_, lastMousePos_,
                   rotX_, rotY_, width, height, pointer, qt6, wheelVars>>

\* the zoom after a wheel event of delta ticks without the clamp
WheelScaleUnclamped(scale, delta) == Mul(scale, Pow11(delta))

\* the zoom after a wheel event that zooms the wrong way
WheelScaleInverted(scale, delta) == Clamp(Mul(scale, Pow11(-delta)), MinZoom, MaxZoom)

\* the zoom after a wheel event of delta ticks
WheelScale(scale, delta) == Clamp(Mul(scale, Pow11(delta)), MinZoom, MaxZoom)

\* CutterVisualizer::wheelEvent for angleDelta().y() = 120 * delta
wheelEvent(delta, maxWheel) ==
    /\ wheelCount < maxWheel
    /\ scale_' = WheelScale(scale_, delta)
    /\ wheelCount' = wheelCount + 1
    /\ plusOnly' = (plusOnly /\ delta = 1)
    /\ lastDelta' = delta
    /\ Update
    /\ UNCHANGED <<genVars, hostVars, slotVars, visualMode_, offset_, lastMousePos_,
                   isDragging_, rotX_, rotY_, width, height, mouseVars, qt6>>

-----------------------------------------------------------------------------
(* BooleanOperator: the front of the external boolean library *)

\* enum class BooleanType
BooleanTypes == {"Union", "Intersection", "Difference"}

\* BooleanOperator::convertType: the operation handed to MR::boolean
convertType(type) == CASE type = "Union"        -> "Union"
                       [] type = "Intersection" -> "Intersection"
                       [] type = "Difference"   -> "DifferenceAB"
                       [] OTHER                 -> "Union"

\* a default-constructed BooleanResult
NewBooleanResult == [mesh |-> EmptyMesh, success |-> FALSE, errorMsg |-> "",
                     durationMs |-> 0]

\* what MR::boolean is not asked: the outcome recorded when it is not invoked
NotInvoked == [invoked |-> FALSE, op |-> "none", valid |-> FALSE,
               mesh |-> EmptyMesh, errorString |-> "", elapsed |-> 0]

\* an execute that does not look at mesh B before the library call
executeUncheckedB(meshA, meshB, type, mr) ==
    IF Len(meshA.points) = 0
    THEN [result |-> [NewBooleanResult EXCEPT !.errorMsg = "Mesh A is empty"],
          lib    |-> NotInvoked]
    ELSE IF ~mr.valid
    THEN [result |-> [NewBooleanResult EXCEPT !.errorMsg = mr.errorString,
                                              !.durationMs = mr.elapsed],
          lib    |-> [mr EXCEPT !.invoked = TRUE, !.op = convertType(type)]]
    ELSE [result |-> [mesh |-> mr.mesh, success |-> TRUE, errorMsg |-> "",
                      durationMs |-> mr.elapsed],
          lib    |-> [mr EXCEPT !.invoked = TRUE, !.op = convertType(type)]]

\* BooleanOperator::execute, mr being what MR::boolean answers if it is
\* asked: the BooleanResult returned and the library call made
execute(meshA, meshB, type, mr) ==
    IF Len(meshA.points) = 0
    THEN [result |-> [NewBooleanResult EXCEPT !.errorMsg = "Mesh A is empty"],
          lib    |-> NotInvoked]
    ELSE IF Len(meshB.points) = 0
    THEN [result |-> [NewBooleanResult EXCEPT !.errorMsg = "Mesh B is empty"],
          lib    |-> NotInvoked]
    ELSE IF ~mr.valid
    THEN [result |-> [NewBooleanResult EXCEPT !.errorMsg = mr.errorString,
                                              !.durationMs = mr.elapsed],
          lib    |-> [mr EXCEPT !.invoked = TRUE, !.op = convertType(type)]]
    ELSE [result |-> [mesh |-> mr.mesh, success |-> TRUE, errorMsg |-> "",
                      durationMs |-> mr.elapsed],
          lib    |-> [mr EXCEPT !.invoked = TRUE, !.op = convertType(type)]]

\* BooleanOperator::difference
difference(meshA, meshB, mr) == execute(meshA, meshB, "Difference", mr)

\* BooleanOperator::getCutPiece: the part of mesh A inside the tool B
getCutPiece(meshA, meshB, mr) == execute(meshA, meshB, "Intersection", mr)

\* the record of one call of the operator
BoolCall(op, type, meshA, meshB, out) ==
    [op |-> op, type |-> type, a |-> meshA, b |-> meshB,
     result |-> out.result, lib |-> out.lib]

\* no call yet
NoBoolCall == [op |-> "none", type |-> "Union", a |-> EmptyMesh, b |-> EmptyMesh,
               result |-> NewBooleanResult, lib |-> NotInvoked]

-----------------------------------------------------------------------------
(* MainWindow: the host of the generator, the operator and the widget *)

\* MainWindow::createBoxMesh
createBoxMesh(center, size) ==
    LET halfW == RoundDiv(size.x, 2)
        halfH == RoundDiv(size.y, 2)
        halfD == RoundDiv(size.z, 2)
    IN  [points |-> << Vec(center.x - halfW, center.y - halfH, center.z - halfD),
                       Vec(center.x + halfW, center.y - halfH, center.z - halfD),
                       Vec(center.x + halfW, center.y + halfH, center.z - halfD),
                       Vec(center.x - halfW, center.y + halfH, center.z - halfD),
                       Vec(center.x - halfW, center.y - halfH, center.z + halfD),
                       Vec(center.x + halfW, center.y - halfH, center.z + halfD),
                       Vec(center.x + halfW, center.y + halfH, center.z + halfD),
                       Vec(center.x - halfW, center.y + halfH, center.z + halfD) >>,
         tris   |-> << <<0, 2, 1>>, <<0, 3, 2>>, <<4, 5, 6>>, <<4, 6, 7>>,
                       <<0, 1, 5>>, <<0, 5, 4>>, <<3, 6, 2>>, <<3, 7, 6>>,
                       <<0, 4, 7>>, <<0, 7, 3>>, <<1, 2, 6>>, <<1, 6, 5>> >>]

\* the box of createInitialScene: centre (0, 0, 15), size 20 x 20 x 25
InitialBox == createBoxMesh(Vec(0, 0, 15 * Unit), Vec(20 * Unit, 20 * Unit, 25 * Unit))

\* the default direction argument of generateAt
DefaultDirection == Vec(0, 0, Unit)

\* the cylinder the constructor makes with generate()
InitialCylinder == generate(DefaultParams)

\* the item data of the mode combo box, by index
ComboData == << "All", "Original", "Cutter", "Result" >>

\* the handler that has just returned: its name, whether its file dialog
\* was cancelled, whether a collaborator it called reported failure, the
\* message box it showed and the number of calls it made to the mesh file
\* collaborators and to the boolean operator
Event(op, cancelled, failed, message, io, bools) ==
    [op |-> op, cancelled |-> cancelled, failed |-> failed, message |-> message,
     io |-> io, bools |-> bools]

\* a handler without dialog, message box or collaborator
Done(op) == Event(op, FALSE, FALSE, "none", 0, 0)

NoEvent == Done("none")

\* no window: the operator has not been used and no member holds anything
InitNoHost ==
    /\ boolCall = NoBoolCall
    /\ pieceCall = NoBoolCall
    /\ mwTargetMesh_ = Null
    /\ mwCutterMesh_ = Null
    /\ mwResultMesh_ = Null
    /\ cutPieceMesh_ = Null
    /\ cutterPosition_ = Vec(0, 0, 0)
    /\ spinX_ = 0
    /\ spinY_ = 0
    /\ spinZ_ = 0
    /\ stepSize_ = Unit
    /\ btnCut_ = FALSE
    /\ btnSave_ = FALSE
    /\ btnSavePiece_ = FALSE
    /\ comboVisualMode_ = 0
    /\ event = NoEvent
    /\ moveCount = 0

\* MainWindow::MainWindow with setupUI and createInitialScene
InitWin ==
    /\ params_ = DefaultParams
    /\ genCall = [NoCall EXCEPT !.op = "generate"]
    /\ genResult = InitialCylinder
    /\ boolCall = NoBoolCall
    /\ pieceCall = NoBoolCall
    /\ cutterPosition_ = Vec(0, 0, 0)
    /\ mwCutterMesh_ = Ptr(InitialCylinder)
    /\ spinX_ = 0
    /\ spinY_ = 0
    /\ spinZ_ = 0
    /\ stepSize_ = Unit
    /\ btnSave_ = FALSE
    /\ btnSavePiece_ = FALSE
    /\ comboVisualMode_ = 0
    /\ mwTargetMesh_ = Ptr(InitialBox)
    /\ btnCut_ = TRUE
    /\ mwResultMesh_ = Null
    /\ cutPieceMesh_ = Null
    /\ targetMesh_ = Ptr(InitialBox)
    /\ cutterMesh_ = Ptr(InitialCylinder)
    /\ resultMesh_ = Null
    /\ visualMode_ = "All"
    /\ scale_ = Unit
    /\ width = 640
    /\ height = 480
    /\ offset_ = QPoint(320, 240)
    /\ lastMousePos_ = QPoint(0, 0)
    /\ isDragging_ = FALSE
    /\ rotX_ = 0
    /\ rotY_ = 0
    /\ updatePending = TRUE
    /\ frame = NoFrame
    /\ pointer = QPoint(0, 0)
    /\ buttons = {}
    /\ qt6 = TRUE
    /\ wheelCount = 0
    /\ plusOnly = TRUE
    /\ lastDelta = 0
    /\ event = NoEvent
    /\ moveCount = 0

\* QDoubleSpinBox with two decimals: a value is rounded to hundredths
Round2(v) == RoundDiv(v, 10) * 10

\* a position spin box without its range
SpinValueUnclamped(v) == Round2(v)

\* the value a position spin box takes when it is given v: rounded to two
\* decimals and bound to its range -500 .. 500
SpinValue(v) == Clamp(Round2(v), -500 * Unit, 500 * Unit)

\* the value the step spin box takes: two decimals, range 0.01 .. 100
StepValue(v) == Clamp(Round2(v), 10, 100 * Unit)

\* what the position handlers leave alone
NoCutNoLoad ==
    UNCHANGED <<params_, boolVars, mwTargetMesh_, mwResultMesh_, cutPieceMesh_,
                buttonVars, comboVisualMode_, targetMesh_, resultMesh_,
                visualMode_, cameraVars, width, height, mouseVars, qt6, wheelVars>>

\* MainWindow::updateCutterMesh for the position just stored, with
\* visualizer_->setCutterMesh
updateCutterMesh ==
    /\ genCall' = [op |-> "generateAt", params |-> params_,
                   position |-> cutterPosition_', direction |-> DefaultDirection]
    /\ genResult' = generateAt(params_, cutterPosition_', DefaultDirection)
    /\ mwCutterMesh_' = Ptr(genResult')
    /\ cutterMesh_' = mwCutterMesh_'
    /\ Update

\* a position spin box is given the value v, by setValue or by the user:
\* if its value changes, valueChanged runs onCutterPositionChanged, which
\* reads the three spin boxes (the float of a value of two decimals is that
\* value to the thousandth) and calls updateCutterMesh
SetSpin(axis, v) ==
    LET x == IF axis = "x" THEN SpinValue(v) ELSE spinX_
        y == IF axis = "y" THEN SpinValue(v) ELSE spinY_
        z == IF axis = "z" THEN SpinValue(v) ELSE spinZ_
    IN  /\ spinX_' = x
        /\ spinY_' = y
        /\ spinZ_' = z
        /\ IF <<x, y, z>> # <<spinX_, spinY_, spinZ_>>
           THEN /\ cutterPosition_' = Vec(x, y, z)
                /\ updateCutterMesh
           ELSE /\ NoUpdate
                /\ UNCHANGED <<cutterPosition_, genCall, genResult, mwCutterMesh_,
                               cutterMesh_>>

\* MainWindow::onCutterPositionChanged after the user has edited a spin box
onCutterPositionChanged(axis, v, maxMoves) ==
    /\ moveCount < maxMoves
    /\ moveCount' = moveCount + 1
    /\ SetSpin(axis, v)
    /\ event' = Done("onCutterPositionChanged")
    /\ UNCHANGED stepSize_
    /\ NoCutNoLoad

\* a step button: the spin box of its axis is set to its value plus or
\* minus the step
onMove(op, axis, step, maxMoves) ==
    /\ moveCount < maxMoves
    /\ moveCount' = moveCount + 1
    /\ SetSpin(axis, (CASE axis = "x" -> spinX_
                         [] axis = "y" -> spinY_
                         [] axis = "z" -> spinZ_) + step)
    /\ event' = Done(op)
    /\ UNCHANGED stepSize_
    /\ NoCutNoLoad

\* MainWindow::onMoveXPlus .. onMoveZMinus
onMoveXPlus(maxMoves) == onMove("onMoveXPlus", "x", stepSize_, maxMoves)

onMoveXMinus(maxMoves) == onMove("onMoveXMinus", "x", -stepSize_, maxMoves)

onMoveYPlus(maxMoves) == onMove("onMoveYPlus", "y", stepSize_, maxMoves)

onMoveYMinus(maxMoves) == onMove("onMoveYMinus", "y", -stepSize_, maxMoves)

onMoveZPlus(maxMoves) == onMove("onMoveZPlus", "z", stepSize_, maxMoves)

onMoveZMinus(maxMoves) == onMove("onMoveZMinus", "z", -stepSize_, maxMoves)

\* MainWindow::onStepSizeChanged
onStepSizeChanged(value) ==
    /\ stepSize_' = StepValue(value)
    /\ event' = Done("onStepSizeChanged")
    /\ NoUpdate
    /\ UNCHANGED <<positionVars, genCall, genResult, mwCutterMesh_, cutterMesh_,
                   moveCount>>
    /\ NoCutNoLoad

\* MainWindow::onResetCutter: the three setValue(0), each with the handler
\* its valueChanged runs, then the position and updateCutterMesh
onResetCutter ==
    /\ spinX_' = SpinValue(0)
    /\ spinY_' = SpinValue(0)
    /\ spinZ_' = SpinValue(0)
    /\ cutterPosition_' = Vec(0, 0, 0)
    /\ updateCutterMesh
    /\ event' = Done("onResetCutter")
    /\ UNCHANGED <<stepSize_, moveCount>>
    /\ NoCutNoLoad

\* what the load, cut, save and mode handlers leave alone
NoMove ==
    UNCHANGED <<genVars, mwCutterMesh_, positionVars, stepSize_, moveCount,
                cutterMesh_, cameraVars, width, height, mouseVars, qt6, wheelVars>>

\* a load whose failure goes unnoticed
LoadFailedIgnored(ld) == FALSE

\* the test `!result.has_value()` on what MR::MeshLoad answered
LoadFailed(ld) == ~ld.ok

\* MainWindow::onLoadTargetMesh: fileName is what the file dialog returned
\* ("" when cancelled), ld what MR::MeshLoad answers if it is asked
onLoadTargetMesh(fileName, ld) ==
    /\ IF fileName = ""
       THEN /\ event' = Event("onLoadTargetMesh", TRUE, FALSE, "none", 0, 0)
            /\ NoUpdate
            /\ UNCHANGED <<mwTargetMesh_, mwResultMesh_, cutPieceMesh_, buttonVars,
                           targetMesh_, resultMesh_>>
       ELSE IF LoadFailed(ld)
       THEN /\ event' = Event("onLoadTargetMesh", FALSE, ~ld.ok, "critical", 1, 0)
            /\ NoUpdate
            /\ UNCHANGED <<mwTargetMesh_, mwResultMesh_, cutPieceMesh_, buttonVars,
                           targetMesh_, resultMesh_>>
       ELSE /\ event' = Event("onLoadTargetMesh", FALSE, ~ld.ok, "none", 1, 0)
            /\ mwTargetMesh_' = Ptr(ld.mesh)
            /\ targetMesh_' = mwTargetMesh_'
            /\ btnCut_' = TRUE
            /\ btnSave_' = FALSE
            /\ mwResultMesh_' = Null
            /\ cutPieceMesh_' = Null
            /\ resultMesh_' = Null
            /\ Update
            /\ UNCHANGED btnSavePiece_
    /\ UNCHANGED <<boolVars, comboVisualMode_, visualMode_>>
    /\ NoMove

\* MainWindow::onVisualModeChanged, run by currentIndexChanged when the
\* combo box takes a new index
onVisualModeChanged(index) ==
    /\ index # comboVisualMode_
    /\ comboVisualMode_' = index
    /\ visualMode_' = ComboData[index + 1]
    /\ Update
    /\ event' = Done("onVisualModeChanged")
    /\ UNCHANGED <<boolVars, meshVars, buttonVars, targetMesh_, resultMesh_>>
    /\ NoMove

\* MainWindow::onExecuteCut: mr1 and mr2 are what MR::boolean answers to the
\* difference and to the cut-piece call if it is asked
onExecuteCut(mr1, mr2) ==
    /\ btnCut_
    /\ IF mwTargetMesh_.null \/ mwCutterMesh_.null
       THEN /\ event' = Event("onExecuteCut", FALSE, FALSE, "warning", 0, 0)
            /\ NoUpdate
            /\ UNCHANGED <<boolVars, mwTargetMesh_, mwResultMesh_, cutPieceMesh_,
                           buttonVars, comboVisualMode_, visualMode_, targetMesh_,
                           resultMesh_>>
       ELSE LET result == difference(mwTargetMesh_.mesh, mwCutterMesh_.mesh, mr1)
            IN  /\ boolCall' = BoolCall("difference", "Difference", mwTargetMesh_.mesh,
                                        mwCutterMesh_.mesh, result)
                /\ IF ~result.result.success
                   THEN /\ event' = Event("onExecuteCut", FALSE, TRUE, "critical", 0, 1)
                        /\ NoUpdate
                        /\ UNCHANGED <<pieceCall, mwTargetMesh_, mwResultMesh_,
                                       cutPieceMesh_, buttonVars, comboVisualMode_,
                                       visualMode_, targetMesh_, resultMesh_>>
                   ELSE /\ mwResultMesh_' = Ptr(result.result.mesh)
                        /\ mwTargetMesh_' = mwResultMesh_'
                        /\ resultMesh_' = mwResultMesh_'
                        /\ LET pieceResult == getCutPiece(mwTargetMesh_'.mesh,
                                                          mwCutterMesh_.mesh, mr2)
                           IN  /\ pieceCall' = BoolCall("getCutPiece", "Intersection",
                                                        mwTargetMesh_'.mesh,
                                                        mwCutterMesh_.mesh, pieceResult)
                               /\ IF /\ pieceResult.result.success
                                     /\ Len(pieceResult.result.mesh.points) > 0
                                  THEN /\ cutPieceMesh_' = Ptr(pieceResult.result.mesh)
                                       /\ btnSavePiece_' = TRUE
                                  ELSE UNCHANGED <<cutPieceMesh_, btnSavePiece_>>
                        /\ comboVisualMode_' = 3
                        /\ visualMode_' = IF comboVisualMode_ # 3 THEN ComboData[4]
                                          ELSE visualMode_
                        /\ btnSave_' = TRUE
                        /\ Update
                        /\ event' = Event("onExecuteCut", FALSE, FALSE, "information", 0, 2)
                        /\ UNCHANGED <<btnCut_, targetMesh_>>
    /\ NoMove

\* a save handler: the mesh it saves, what the file dialog returned and
\* whether MR::MeshSave succeeded
onSave(op, ptr, fileName, saved) ==
    /\ event' = IF ptr.null \/ Len(ptr.mesh.points) = 0
                THEN Event(op, FALSE, FALSE, "warning", 0, 0)
                ELSE IF fileName = ""
                THEN Event(op, TRUE, FALSE, "none", 0, 0)
                ELSE IF saved
                THEN Event(op, FALSE, FALSE, "information", 1, 0)
                ELSE Event(op, FALSE, TRUE, "critical", 1, 0)
    /\ NoUpdate
    /\ UNCHANGED <<boolVars, meshVars, buttonVars, comboVisualMode_, visualMode_,
                   targetMesh_, resultMesh_>>
    /\ NoMove

\* MainWindow::onSaveResult, from the menu or from its button
onSaveResult(fileName, saved) == onSave("onSaveResult", mwResultMesh_, fileName, saved)

\* MainWindow::onSaveCutPiece, from its button
onSaveCutPiece(fileName, saved) ==
    /\ btnSavePiece_
    /\ onSave("onSaveCutPiece", cutPieceMesh_, fileName, saved)

-----------------------------------------------------------------------------
(* The generator driven by its callers: setParams, generate, generateAt *)

SegmentChoices == {0, 2} \cup (3..MaxSegments)

DiameterChoices == {-2 * Unit, 0, 6 * Unit}

LengthChoices == {-10 * Unit, 0, 10 * Unit, 50 * Unit}

\* a small valid cylinder, varied in one field at a time
BaseParams == [length |-> 10 * Unit, diameter |-> 4 * Unit, segments |-> 4]

ParamChoices ==
    {DefaultParams}
    \cup {[BaseParams EXCEPT !.segments = n] : n \in SegmentChoices}
    \cup {[BaseParams EXCEPT !.diameter = d] : d \in DiameterChoices}
    \cup {[BaseParams EXCEPT !.length = l] : l \in LengthChoices}
    \cup {[DefaultParams EXCEPT !.segments = 2, !.diameter = 0]}

PositionChoices == { Vec(0, 0, 0), Vec(10 * Unit, -2 * Unit, 7 * Unit) }

\* directions are not normalised by the caller; components in mm
DirectionChoices == { Vec(0, 0, Unit), Vec(0, 0, 2 * Unit), Vec(0, 0, -3 * Unit),
                      Vec(Unit, 0, 0), Vec(Unit, 0, Unit),
                      Vec(0, 3 * Unit, -4 * Unit), Vec(0, 0, 0) }

InitGen ==
    /\ params_ = DefaultParams
    /\ genCall = NoCall
    /\ genResult = EmptyMesh
    /\ InitView
    /\ qt6 = TRUE
    /\ InitNoHost

\* CylinderGenerator::setParams
SetParams(p) ==
    /\ params_' = p
    /\ UNCHANGED <<genCall, genResult, viewVars, hostVars>>

\* a call of generate()
Generate ==
    /\ genResult' = generate(params_)
    /\ genCall' = [NoCall EXCEPT !.op = "generate", !.params = params_]
    /\ UNCHANGED <<params_, viewVars, hostVars>>

\* a call of generateAt(position, direction)
GenerateAt(position, direction) ==
    /\ genResult' = generateAt(params_, position, direction)
    /\ genCall' = [op |-> "generateAt", params |-> params_,
                   position |-> position, direction |-> direction]
    /\ UNCHANGED <<params_, viewVars, hostVars>>

NextGen ==
    \/ \E p \in ParamChoices : SetParams(p)
    \/ Generate
    \/ \E position \in PositionChoices, direction \in DirectionChoices :
          GenerateAt(position, direction)

SpecGen == InitGen /\ [][NextGen]_vars

-----------------------------------------------------------------------------
(* The widget driven by its host: slot and mode changes, repaints, input *)

\* largest rotation explored, in hundredths of a radian
MaxAngle == 100

\* a target with three faces: one near (z = 2), two equally far (z = 8)
MeshT == [points |-> << Vec(0, 0, 2000), Vec(4000, 0, 2000), Vec(0, 4000, 2000),
                        Vec(0, 0, 8000), Vec(4000, 0, 8000), Vec(0, 4000, 8000),
                        Vec(4000, 4000, 8000) >>,
          tris   |-> << <<0, 1, 2>>, <<3, 4, 5>>, <<4, 6, 5>> >>]

\* a tool with one face in between (z = 5)
MeshC == [points |-> << Vec(10000, 0, 5000), Vec(14000, 0, 5000), Vec(10000, 4000, 5000) >>,
          tris   |-> << <<0, 1, 2>> >>]

\* what the host may put into a slot
ViewMeshes == { Null, Ptr(EmptyMesh), Ptr(MeshT), Ptr(MeshC) }

ViewPositions == { QPoint(0, 0), QPoint(100, 50) }

ViewSizes == { QPoint(600, 500) }

InitRender ==
    /\ params_ = DefaultParams
    /\ genCall = NoCall
    /\ genResult = EmptyMesh
    /\ InitView
    /\ qt6 = TRUE
    /\ InitNoHost

SetTarget == \E m \in ViewMeshes : setTargetMesh(m)

SetCutter == \E m \in ViewMeshes : setCutterMesh(m)

SetResult == \E m \in ViewMeshes : setResultMesh(m)

SetMode == \E m \in VisualModes : setVisualMode(m)

Resize == \E s \in ViewSizes : resizeEvent(s.x, s.y)

PressLeft == mousePressEvent("Left")

ReleaseLeft == mouseReleaseEvent("Left")

MoveView == \E pos \in ViewPositions : mouseMoveEvent(pos, MaxAngle)

NextRender ==
    \/ SetTarget
    \/ SetCutter
    \/ SetResult
    \/ clearAll
    \/ SetMode
    \/ updateView
    \/ paintEvent
    \/ Resize
    \/ PressLeft
    \/ ReleaseLeft
    \/ MoveView

SpecRender == InitRender /\ [][NextRender]_vars

\* largest wheel event explored, in ticks
MaxTicks == 25

\* number of wheel events explored
MaxWheel == 10

ZoomTicks == {-MaxTicks, -1, 1, MaxTicks}

ZoomPositions == { QPoint(0, 0), QPoint(100, 50) }

InitZoom == InitRender

WheelZoom == \E delta \in ZoomTicks : wheelEvent(delta, MaxWheel)

MoveZoom == \E pos \in ZoomPositions : mouseMoveEvent(pos, MaxAngle)

SetModeZoom == \E m \in {"All", "Result"} : setVisualMode(m)

SetTargetZoom == \E m \in {Null, Ptr(MeshC)} : setTargetMesh(m)

\* wheel events of any size, between drags, a resize, and slot and mode changes
NextZoom ==
    \/ WheelZoom
    \/ PressLeft
    \/ ReleaseLeft
    \/ MoveZoom
    \/ Resize
    \/ SetModeZoom
    \/ SetTargetZoom

SpecZoom == InitZoom /\ [][NextZoom]_vars

CamPositions == { QPoint(0, 0), QPoint(100, 0), QPoint(100, 50) }

CamSizes == { QPoint(600, 500), QPoint(800, 600) }

\* either build of the widget
InitCam ==
    /\ params_ = DefaultParams
    /\ genCall = NoCall
    /\ genResult = EmptyMesh
    /\ InitView
    /\ qt6 \in BOOLEAN
    /\ InitNoHost

PressCam == \E b \in {"Left", "Right"} : mousePressEvent(b)

ReleaseCam == \E b \in {"Left", "Right"} : mouseReleaseEvent(b)

MoveCam == \E pos \in CamPositions : mouseMoveEvent(pos, MaxAngle)

WheelCam == \E delta \in {-1, 1} : wheelEvent(delta, 1)

ResizeCam == \E s \in CamSizes : resizeEvent(s.x, s.y)

\* pointer, wheel and resize events with both mouse buttons in play
NextCam ==
    \/ PressCam
    \/ ReleaseCam
    \/ MoveCam
    \/ WheelCam
    \/ ResizeCam
    \/ paintEvent

SpecCam == InitCam /\ [][NextCam]_vars

\* number of wheel events explored between repaints
MaxFitWheel == 2

\* a target 60 mm wide and a result 100 mm wide, one face each
MeshWide == [points |-> << Vec(0, 0, 0), Vec(60000, 0, 0), Vec(0, 20000, 0) >>,
             tris   |-> << <<0, 1, 2>> >>]

MeshHuge == [points |-> << Vec(0, 0, 0), Vec(100000, 0, 0), Vec(0, 20000, 0) >>,
             tris   |-> << <<0, 1, 2>> >>]

SetTargetFit == \E m \in {Null, Ptr(MeshT), Ptr(MeshWide)} : setTargetMesh(m)

SetResultFit == \E m \in {Null, Ptr(MeshHuge)} : setResultMesh(m)

SetModeFit == \E m \in {"All", "Original"} : setVisualMode(m)

WheelFit == \E delta \in {-1, 1} : wheelEvent(delta, MaxFitWheel)

\* repaints of meshes of several sizes at several zoom factors
NextFit ==
    \/ SetTargetFit
    \/ SetResultFit
    \/ SetModeFit
    \/ WheelFit
    \/ ResizeCam
    \/ paintEvent

SpecFit == InitRender /\ [][NextFit]_vars

-----------------------------------------------------------------------------
(* The boolean operator driven by its callers *)

\* a mesh with vertices and no faces
MeshPoints == [points |-> << Vec(0, 0, 0), Vec(1000, 0, 0) >>, tris |-> << >>]

\* the meshes handed to the operator
BoolMeshes == { EmptyMesh, MeshPoints, MeshT, MeshC }

\* what MR::boolean may answer: a valid result with some mesh, or an
\* invalid one with some error string
LibAnswers ==
    { [NotInvoked EXCEPT !.valid = TRUE, !.mesh = m, !.elapsed = 2] :
          m \in { EmptyMesh, MeshT, MeshC } }
    \cup { [NotInvoked EXCEPT !.errorString = e, !.elapsed = 3] :
              e \in { "", "Bad contour on mesh A" } }

\* a call of execute
Execute(meshA, meshB, type) ==
    /\ \E mr \in LibAnswers :
          boolCall' = BoolCall("execute", type, meshA, meshB,
                               execute(meshA, meshB, type, mr))
    /\ UNCHANGED <<genVars, viewVars, pieceCall, winVars>>

\* a call of difference
Difference(meshA, meshB) ==
    /\ \E mr \in LibAnswers :
          boolCall' = BoolCall("difference", "Difference", meshA, meshB,
                               difference(meshA, meshB, mr))
    /\ UNCHANGED <<genVars, viewVars, pieceCall, winVars>>

NextBool ==
    \/ \E a \in BoolMeshes, b \in BoolMeshes, type \in BooleanTypes : Execute(a, b, type)
    \/ \E a \in BoolMeshes, b \in BoolMeshes : Difference(a, b)

SpecBool == InitRender /\ [][NextBool]_vars

-----------------------------------------------------------------------------
(* The window: moving the tool *)

\* number of position edits and step presses explored
MaxMoves == 2

\* values typed into a position spin box
SpinChoices == { -500 * Unit, 499500 }

\* values typed into the step spin box
StepChoices == { 10, 100 * Unit }

EditPosition ==
    \E axis \in {"x", "y", "z"}, v \in SpinChoices :
        onCutterPositionChanged(axis, v, MaxMoves)

EditStep == \E v \in StepChoices : onStepSizeChanged(v)

NextMove ==
    \/ EditPosition
    \/ onMoveXPlus(MaxMoves)
    \/ onMoveXMinus(MaxMoves)
    \/ onMoveYPlus(MaxMoves)
    \/ onMoveYMinus(MaxMoves)
    \/ onMoveZPlus(MaxMoves)
    \/ onMoveZMinus(MaxMoves)
    \/ EditStep
    \/ onResetCutter

SpecMove == InitWin /\ [][NextMove]_vars

-----------------------------------------------------------------------------
(* The window: loading, cutting, saving *)

\* what the file dialogs return: nothing (cancelled) or a file name
FileNames == { "", "part.stl" }

\* what MR::MeshLoad may answer: an error or a mesh
LoadAnswers == { [ok |-> FALSE, mesh |-> EmptyMesh], [ok |-> TRUE, mesh |-> MeshT] }

\* what MR::boolean may answer to a cut: a mesh, an empty mesh or an error
CutAnswers == { mr \in LibAnswers : IF mr.valid THEN mr.mesh # MeshT
                                    ELSE mr.errorString # "" }

Load == \E fileName \in FileNames, ld \in LoadAnswers : onLoadTargetMesh(fileName, ld)

Cut == \E mr1 \in CutAnswers, mr2 \in CutAnswers : onExecuteCut(mr1, mr2)

ChangeMode == \E index \in {0, 3} : onVisualModeChanged(index)

SaveResult == \E fileName \in FileNames, saved \in BOOLEAN : onSaveResult(fileName, saved)

SavePiece == \E fileName \in FileNames, saved \in BOOLEAN : onSaveCutPiece(fileName, saved)

MoveCut == onCutterPositionChanged("z", -10 * Unit, 1)

NextCut ==
    \/ Load
    \/ Cut
    \/ ChangeMode
    \/ SaveResult
    \/ SavePiece
    \/ MoveCut
    \/ onResetCutter

SpecCut == InitWin /\ [][NextCut]_vars

-----------------------------------------------------------------------------
(* Properties of the generator *)

\* the parameters pass generate()'s guard
ValidParams(p) == p.segments >= 3 /\ p.diameter > 1 /\ p.length > 0

\* the VertIds a triangle uses
TriVerts(t) == {t[1], t[2], t[3]}

\* C1: for segments N >= 3, radius > 0 and length > 0, generate() returns
\* 2*N + 2 vertices and 4*N triangles, of which the first N are the top cap
\* (top apex and top ring only), the next N the bottom cap (bottom apex and
\* bottom ring only) and the last 2*N the side wall (ring vertices only), and
\* every triangle index is a vertex index in 0 .. 2*N+1.
C1_GenerateCounts ==
    (genCall.op = "generate" /\ ValidParams(genCall.params)) =>
        LET N == genCall.params.segments
            m == genResult
        IN  /\ Len(m.points) = 2 * N + 2
            /\ Len(m.tris) = 4 * N
            /\ \A f \in 1..Len(m.tris) : TriVerts(m.tris[f]) \subseteq 0..(2 * N + 1)
            /\ \A f \in 1..Len(m.tris) :
                  /\ f <= N => (0 \in TriVerts(m.tris[f])
                                /\ TriVerts(m.tris[f]) \subseteq {0} \cup (2..(N + 1)))
                  /\ (N < f /\ f <= 2 * N) =>
                         (1 \in TriVerts(m.tris[f])
                          /\ TriVerts(m.tris[f]) \subseteq {1} \cup ((N + 2)..(2 * N + 1)))
                  /\ f > 2 * N => TriVerts(m.tris[f]) \subseteq 2..(2 * N + 1)

\* generate() has returned the default 64-segment cylinder: 130 vertices, 256 triangles
C1_Witness ==
    /\ genCall.op = "generate"
    /\ genCall.params = DefaultParams
    /\ Len(genResult.points) = 130
    /\ Len(genResult.tris) = 256

\* C2: for segments < 3, or radius <= 0, or length <= 0, generate() returns
\* a mesh with no vertices and no triangles, and so does generateAt for
\* every position and direction.
C2_InvalidParamsGiveEmptyMesh ==
    (genCall.op \in {"generate", "generateAt"} /\ ~ValidParams(genCall.params)) =>
        (Len(genResult.points) = 0 /\ Len(genResult.tris) = 0)

\* generateAt was called with two segments, away from the origin and off axis
C2_Witness ==
    /\ genCall.op = "generateAt"
    /\ genCall.params.segments = 2
    /\ genCall.params.diameter > 0
    /\ genCall.params.length > 0
    /\ genCall.position # Vec(0, 0, 0)
    /\ genCall.direction.x # 0
    /\ Len(genResult.points) = 0

\* the direction is a non-zero multiple of the native axis (0,0,1)
AlongNativeAxis(d) == d.x = 0 /\ d.y = 0 /\ d.z # 0

\* C3: for valid parameters and a direction parallel or anti-parallel to
\* the native axis, generateAt(p, d) is a pure translation: vertex i of the
\* result is vertex i of generate() plus p (so with p = 0 the positions are
\* those of generate()).
C3_AxisDirectionTranslates ==
    (genCall.op = "generateAt" /\ ValidParams(genCall.params)
        /\ AlongNativeAxis(genCall.direction)) =>
        LET base == generate(genCall.params)
        IN  /\ Len(genResult.points) = Len(base.points)
            /\ \A i \in 1..Len(base.points) :
                  genResult.points[i] = VAdd(base.points[i], genCall.position)

\* generateAt has placed a cylinder away from the origin with a reversed axis
C3_Witness ==
    /\ genCall.op = "generateAt"
    /\ ValidParams(genCall.params)
    /\ genCall.direction.x = 0 /\ genCall.direction.y = 0 /\ genCall.direction.z < 0
    /\ genCall.position # Vec(0, 0, 0)
    /\ Len(genResult.points) > 0

\* the axis-aligned bounding box of the vertices of a non-empty mesh
Box3(mesh) ==
    LET n  == Len(mesh.points)
        xs == {mesh.points[i].x : i \in 1..n}
        ys == {mesh.points[i].y : i \in 1..n}
        zs == {mesh.points[i].z : i \in 1..n}
        hi(S) == CHOOSE a \in S : \A b \in S : b <= a
        lo(S) == CHOOSE a \in S : \A b \in S : a <= b
    IN  [min |-> Vec(lo(xs), lo(ys), lo(zs)), max |-> Vec(hi(xs), hi(ys), hi(zs))]

\* the box [-r, r] x [-r, r] x [-L/2, L/2] of a parameter set
FullBox(p) ==
    [min |-> Vec(-getRadius(p), -getRadius(p), -RoundDiv(p.length, 2)),
     max |-> Vec(getRadius(p), getRadius(p), RoundDiv(p.length, 2))]

\* C18 as claimed: for every segment count N >= 3 (not only multiples of
\* 4), radius r > 0 and length L > 0, the bounding box of generate()'s
\* vertices is exactly [-r, r] x [-r, r] x [-L/2, L/2].
C18_BoundingBoxExact ==
    (genCall.op = "generate" /\ ValidParams(genCall.params)) =>
        Box3(genResult) = FullBox(genCall.params)

\* C18 as amended: for every N >= 3, r > 0 and L > 0 the bounding box of
\* generate()'s vertices lies within [-r, r] x [-r, r] x [-L/2, L/2], spans
\* exactly [-L/2, L/2] in z and reaches x = +r; it is the whole box when N
\* is a multiple of 4.
C18_BoundingBoxWithin ==
    (genCall.op = "generate" /\ ValidParams(genCall.params)) =>
        LET box  == Box3(genResult)
            full == FullBox(genCall.params)
        IN  /\ full.min.x <= box.min.x /\ box.max.x = full.max.x
            /\ full.min.y <= box.min.y /\ box.max.y <= full.max.y
            /\ box.min.z = full.min.z /\ box.max.z = full.max.z
            /\ genCall.params.segments % 4 = 0 => box = full

\* generate() has returned the four-segment cylinder of radius 2 and length
\* 10, whose vertices reach x = -2, x = 2, y = -2 and y = 2
C18_Witness ==
    /\ genCall.op = "generate"
    /\ genCall.params.segments = 4
    /\ genCall.params.diameter = 4 * Unit
    /\ Len(genResult.points) = 10
    /\ Box3(genResult) = [min |-> Vec(-2 * Unit, -2 * Unit, -5 * Unit),
                          max |-> Vec(2 * Unit, 2 * Unit, 5 * Unit)]

\* C21: for every valid parameter set, every position and every direction
\* (the rotated branch included), generateAt changes vertex positions only:
\* its result has 2*N + 2 vertices and the triangle index triples of
\* generate() for the same parameters, in the same order.
C21_GenerateAtKeepsTopology ==
    (genCall.op = "generateAt" /\ ValidParams(genCall.params)) =>
        LET base == generate(genCall.params)
        IN  /\ Len(genResult.points) = 2 * genCall.params.segments + 2
            /\ Len(genResult.points) = Len(base.points)
            /\ genResult.tris = base.tris

\* generateAt has rotated a five-segment cylinder towards (1,0,1) and moved
\* it away from the origin: every vertex has left its generate() position
C21_Witness ==
    /\ genCall.op = "generateAt"
    /\ genCall.params.segments = 5
    /\ ValidParams(genCall.params)
    /\ genCall.direction = Vec(Unit, 0, Unit)
    /\ genCall.position # Vec(0, 0, 0)
    /\ Len(genResult.tris) = 20
    /\ \A i \in 1..Len(genResult.points) :
          genResult.points[i] # generate(genCall.params).points[i]

-----------------------------------------------------------------------------
(* Properties of the camera *)

\* C4: in every reachable state, after wheel events of any sign and size
\* interleaved with drags, resizes and slot and mode changes, the zoom
\* factor lies in [0.1, 10.0].
C4_ZoomInRange == Unit \div 10 <= scale_ /\ scale_ <= 10 * Unit

\* the zoom sits at its lower limit after wheel events and a drag, a resize,
\* a slot change and a mode change
C4_Witness ==
    /\ scale_ = Unit \div 10
    /\ wheelCount >= 2
    /\ rotY_ # 0
    /\ offset_ = QPoint(0, 0)
    /\ ~targetMesh_.null
    /\ visualMode_ # "All"

\* C5: a wheel event of t ticks sets the zoom to
\* clamp(zoom_before * 1.1^t, 0.1, 10.0) and leaves yaw, pitch, pan and the
\* drag flag unchanged; and after n wheel events of +1 tick from the initial
\* zoom 1 the zoom is min(1.1^n, 10.0): 1.1 after one, about 2.59 after ten.
C5_WheelSetsZoom ==
    /\ [][wheelCount' # wheelCount =>
            /\ scale_' = Clamp(Mul(scale_, Pow11(lastDelta')), Unit \div 10, 10 * Unit)
            /\ UNCHANGED <<rotX_, rotY_, offset_, isDragging_>>]_vars
    /\ [](plusOnly =>
            /\ scale_ = Min2(Pow11(wheelCount), 10 * Unit)
            /\ wheelCount = 1 => scale_ = 1100
            /\ wheelCount = 10 => (2585 <= scale_ /\ scale_ <= 2595))

\* ten wheel events of +1 tick have been handled in the middle of a drag
C5_Witness ==
    /\ plusOnly
    /\ wheelCount = 10
    /\ isDragging_
    /\ rotY_ # 0
    /\ rotX_ # 0

\* C6: while the primary button is held, a move of the pointer by (dx, dy)
\* adds 0.01*dx to yaw and 0.01*dy to pitch; a move while it is not held
\* leaves yaw, pitch, zoom and pan unchanged; and nothing but a move of the
\* pointer changes yaw or pitch.
C6_DragRotates ==
    [][ /\ (pointer' # pointer /\ "Left" \in buttons) =>
              /\ rotY_' = rotY_ + (pointer'.x - pointer.x)
              /\ rotX_' = rotX_ + (pointer'.y - pointer.y)
        /\ (pointer' # pointer /\ "Left" \notin buttons) =>
              UNCHANGED <<rotX_, rotY_, scale_, offset_>>
        /\ pointer' = pointer => UNCHANGED <<rotX_, rotY_>> ]_vars

\* a drag of (100, 0) pixels from yaw = pitch = 0 is under way: yaw is 1.0
C6_Witness ==
    /\ "Left" \in buttons
    /\ isDragging_
    /\ pointer = QPoint(100, 0)
    /\ rotY_ = 100
    /\ rotX_ = 0

-----------------------------------------------------------------------------
(* Properties of a painted frame; `frame` is the frame of the paintEvent   *)
(* that has just returned, so the slots and the mode are those it saw      *)

\* the fills of the frame, in painting order
Fills == SelectSeq(frame.ops, LAMBDA op : op.kind = "fill")

\* the slots whose geometry is in the frame
DrawnSlots == { frame.ops[i].slot : i \in { k \in 1..Len(frame.ops) :
                                              frame.ops[k].kind \in {"fill", "outline"} } }
              \cup { frame.rendered[i] : i \in 1..Len(frame.rendered) }

\* the slot holds a mesh with at least one vertex
NonEmptySlot(ptr) == ~ptr.null /\ Len(ptr.mesh.points) > 0

\* the slots a mode shows, as the specification lists them
ShownBy(mode) == CASE mode = "All"      -> {"target", "cutter", "result"}
                   [] mode = "Original" -> {"target"}
                   [] mode = "Cutter"   -> {"cutter"}
                   [] mode = "Result"   -> {"result"}

\* C7: in every frame the fills of all triangles drawn, of whichever mesh,
\* are painted in order of depth key descending: a triangle with a larger
\* camera-space centroid depth is filled before one with a smaller depth.
C7_FillsBackToFront ==
    frame.painted =>
        \A i, j \in 1..Len(Fills) : i < j => Fills[i].depth >= Fills[j].depth

\* C8: in every frame a slot's mesh is drawn if and only if the slot is not
\* null, its mesh is not empty and the mode shows the slot (All shows all
\* three, a single-slot mode exactly its own).
C8_DrawnIffEligible ==
    frame.painted =>
        \A name \in {"target", "cutter", "result"} :
            name \in DrawnSlots <=>
                (NonEmptySlot(Slots[name]) /\ name \in ShownBy(visualMode_))

\* tool-only mode has drawn the tool and not the non-empty target
C8_Witness ==
    /\ frame.painted
    /\ visualMode_ = "Cutter"
    /\ NonEmptySlot(targetMesh_)
    /\ NonEmptySlot(cutterMesh_)
    /\ DrawnSlots = {"cutter"}

\* C9: for every slot content and mode a redraw dereferences no null slot,
\* and it paints the placeholder text and no mesh geometry exactly when no
\* slot the mode shows holds a non-empty mesh.
C9_PlaceholderIffNothingToShow ==
    frame.painted =>
        LET nothing == \A name \in ShownBy(visualMode_) : ~NonEmptySlot(Slots[name])
            text    == \E i \in 1..Len(frame.ops) : frame.ops[i].kind = "text"
        IN  /\ ~frame.fault
            /\ frame.placeholder <=> nothing
            /\ text <=> nothing
            /\ nothing => DrawnSlots = {}

\* the placeholder was painted although a slot the mode hides holds a mesh,
\* the slot it shows being empty and another one null
C9_Witness ==
    /\ frame.painted
    /\ frame.placeholder
    /\ visualMode_ = "Original"
    /\ targetMesh_ = Ptr(EmptyMesh)
    /\ cutterMesh_.null
    /\ NonEmptySlot(resultMesh_)

\* C10: every redraw paints the axis triad, whatever the mode and the slots,
\* also when nothing is to be shown and the placeholder is painted.
C10_AxesInEveryFrame ==
    frame.painted => \E i \in 1..Len(frame.ops) : frame.ops[i].kind = "axes"

-----------------------------------------------------------------------------
(* Properties of the scales of a frame *)

\* the axis triad of the frame, if it has one
AxesOf(f) == SelectSeq(f.ops, LAMBDA op : op.kind = "axes")

\* C11: the axis triad has a fixed length that depends neither on the zoom
\* factor nor on the slot contents: in every frame with a triad, after any
\* scroll events, the axis length is the one drawn at the initial zoom.
C11_AxisLengthFixed ==
    \A i \in 1..Len(AxesOf(frame)) : AxesOf(frame)[i].axisLength = 80 * Unit

\* the largest bounding-box extent over the visible non-empty meshes
LargestVisibleExtent ==
    LET ext(name) == IF NonEmptySlot(Slots[name]) /\ name \in ShownBy(visualMode_)
                     THEN MaxExtent(Slots[name].mesh) ELSE 0
    IN  Max2(ext("target"), Max2(ext("cutter"), ext("result")))

\* the auto-fit scale of the specification: the shorter side of the viewport
\* over 1.5 times max(50, largest visible extent)
AutoFit == RoundDiv(Min2(width, height) * Unit * Unit,
                    RoundDiv(Max2(50 * Unit, LargestVisibleExtent) * 3, 2))

\* C12: the scale every mesh vertex of a frame is projected with is the
\* auto-fit scale of that frame times the zoom factor, the auto-fit scale
\* being computed from max(50, largest extent of the visible non-empty
\* meshes) and the shorter side of the viewport.
C12_ProjectedWithAutoFit ==
    frame.painted =>
        \A i \in 1..Len(Fills) : Fills[i].scale = Mul(AutoFit, scale_)

-----------------------------------------------------------------------------
(* Frame conditions of the widget's operations *)

\* C13: setTargetMesh, setCutterMesh and setResultMesh each set exactly
\* their own slot to the given reference (null clears it) and request a
\* redraw, leaving the other two slots, the mode and the whole camera state
\* unchanged; clearAll sets all three slots to null and changes nothing
\* else; setVisualMode changes only the mode; so no step that changes a slot
\* or the mode changes the camera or the viewport.
C13_SettersChangeOwnSlotOnly ==
    [][ /\ \A m \in ViewMeshes :
              /\ setTargetMesh(m) =>
                    /\ targetMesh_' = m /\ updatePending'
                    /\ UNCHANGED <<cutterMesh_, resultMesh_, visualMode_, cameraVars>>
              /\ setCutterMesh(m) =>
                    /\ cutterMesh_' = m /\ updatePending'
                    /\ UNCHANGED <<targetMesh_, resultMesh_, visualMode_, cameraVars>>
              /\ setResultMesh(m) =>
                    /\ resultMesh_' = m /\ updatePending'
                    /\ UNCHANGED <<targetMesh_, cutterMesh_, visualMode_, cameraVars>>
        /\ clearAll =>
              /\ targetMesh_'.null /\ cutterMesh_'.null /\ resultMesh_'.null
              /\ UNCHANGED <<visualMode_, cameraVars, width, height>>
        /\ \A md \in VisualModes :
              setVisualMode(md) =>
                    /\ visualMode_' = md
                    /\ UNCHANGED <<slotVars, cameraVars, width, height>>
        /\ (slotVars' # slotVars \/ visualMode_' # visualMode_) =>
              /\ updatePending'
              /\ UNCHANGED <<cameraVars, width, height, genVars>>
        /\ (slotVars' # slotVars) => visualMode_' = visualMode_ ]_vars

\* the target was set and the result cleared in the middle of a drag, with
\* the camera turned, the pan reset and a single-slot mode chosen; the tool
\* slot kept its mesh and a redraw is pending
C13_Witness ==
    /\ targetMesh_ = Ptr(MeshT)
    /\ cutterMesh_ = Ptr(MeshC)
    /\ resultMesh_ = Null
    /\ visualMode_ = "Result"
    /\ isDragging_
    /\ rotY_ # 0
    /\ offset_ = QPoint(0, 0)
    /\ updatePending
    /\ ~frame.painted

\* the viewport still has the size it was constructed with
NeverResized == width = 640 /\ height = 480

\* C14: a viewport resize sets the pan offset to (0,0) whatever it was and
\* leaves yaw, pitch, zoom and all slots unchanged; no other operation
\* writes the pan offset; so the pan offset is (0,0) in every state reached
\* after the first resize.
C14_ResizeResetsPan ==
    /\ [][ /\ \A s \in ViewSizes :
                 resizeEvent(s.x, s.y) =>
                       /\ offset_' = QPoint(0, 0)
                       /\ UNCHANGED <<rotX_, rotY_, scale_, slotVars>>
           /\ offset_' # offset_ =>
                 /\ width' # width \/ height' # height
                 /\ offset_' = QPoint(0, 0)
                 /\ UNCHANGED <<rotX_, rotY_, scale_, slotVars>> ]_vars
    /\ [](~NeverResized => offset_ = QPoint(0, 0))

\* the viewport was resized, and since then the view was zoomed, turned and
\* given a target: the pan offset is (0,0)
C14_Witness ==
    /\ ~NeverResized
    /\ offset_ = QPoint(0, 0)
    /\ scale_ > Unit
    /\ rotX_ # 0
    /\ ~targetMesh_.null
    /\ lastDelta = -1

\* C15: every handler that changes a camera field (yaw or pitch by a drag
\* move, zoom by a scroll, pan by a resize) requests a redraw within the
\* same handler: when it returns, a redraw is pending.
C15_CameraChangeRequestsRedraw ==
    [][ <<rotX_, rotY_, scale_, offset_>>' # <<rotX_, rotY_, scale_, offset_>>
            => updatePending' ]_vars

-----------------------------------------------------------------------------
(* Properties of the boolean operator *)

\* C16: execute and difference, for every operation type: if mesh A or
\* mesh B has no vertices the call returns success = false with a non-empty
\* error message and an empty result mesh and does not invoke the external
\* library; success = true is returned only when the library was invoked
\* and answered with a valid result.
C16_EmptyInputRejected ==
    boolCall.op \in {"execute", "difference"} =>
        /\ (Len(boolCall.a.points) = 0 \/ Len(boolCall.b.points) = 0) =>
              /\ ~boolCall.result.success
              /\ boolCall.result.errorMsg # ""
              /\ boolCall.result.mesh = EmptyMesh
              /\ ~boolCall.lib.invoked
        /\ boolCall.result.success =>
              /\ boolCall.lib.invoked
              /\ boolCall.lib.valid
              /\ boolCall.lib.op = convertType(boolCall.type)

\* difference was called with a non-empty mesh A and an empty tool B and
\* has failed without a library call
C16_Witness ==
    /\ boolCall.op = "difference"
    /\ Len(boolCall.a.points) > 0
    /\ Len(boolCall.b.points) = 0
    /\ ~boolCall.result.success
    /\ boolCall.result.errorMsg = "Mesh B is empty"
    /\ ~boolCall.lib.invoked

-----------------------------------------------------------------------------
(* Properties of the window *)

\* a coordinate within the range of the position spin boxes
InSpinRange(v) == -500 * Unit <= v /\ v <= 500 * Unit

\* C19: after any sequence of position edits, step presses, step-size
\* changes and Reset Position, once the handler has returned, the stored
\* cutter position equals the three spin-box values, each component lies in
\* [-500, 500], and the renderer's tool slot holds the window's cutter mesh,
\* which is the cylinder of generateAt at exactly that position: the default
\* cylinder with every vertex moved by the position; after Reset the
\* position is (0,0,0).
C19_ToolFollowsSpinBoxes ==
    /\ cutterPosition_ = Vec(spinX_, spinY_, spinZ_)
    /\ InSpinRange(spinX_) /\ InSpinRange(spinY_) /\ InSpinRange(spinZ_)
    /\ cutterMesh_ = mwCutterMesh_
    /\ ~cutterMesh_.null
    /\ cutterMesh_.mesh.tris = InitialCylinder.tris
    /\ Len(cutterMesh_.mesh.points) = Len(InitialCylinder.points)
    /\ \A i \in 1..Len(InitialCylinder.points) :
          cutterMesh_.mesh.points[i] = VAdd(InitialCylinder.points[i], cutterPosition_)
    /\ event.op # "none" =>
          (genCall.op = "generateAt" => genCall.position = cutterPosition_)
    /\ event.op = "onResetCutter" => cutterPosition_ = Vec(0, 0, 0)

\* +X was pressed after x was edited to 499.5: the spin box and the position
\* stopped at 500 and the tool in the slot stands there
C19_Witness ==
    /\ event.op = "onMoveXPlus"
    /\ spinX_ = 500 * Unit
    /\ cutterPosition_.x = 500 * Unit
    /\ cutterMesh_.mesh.points[1].x = 500 * Unit
    /\ moveCount = 2

\* what a failed or cancelled operation must leave as it was: the window's
\* target, result and cut-piece meshes, the renderer's three slots, the mode
\* (of the renderer and of the combo box) and the three buttons
Kept == <<mwTargetMesh_, mwResultMesh_, cutPieceMesh_, slotVars, visualMode_,
          comboVisualMode_, btnCut_, btnSave_, btnSavePiece_>>

C20_PieceOfThisCut ==
    (event.op = "onExecuteCut" /\ ~event.failed /\ event.bools = 2) =>
        /\ pieceCall.a = boolCall.a
        /\ pieceCall.b = boolCall.b
        /\ ~cutPieceMesh_.null =>
              /\ pieceCall.result.success
              /\ cutPieceMesh_.mesh = pieceCall.result.mesh

\* C22: in every state reached by loads (successful, cancelled, failed),
\* cuts (successful, failed), repositioning and saves, each save button is
\* enabled only while the mesh it saves exists: Save Piece enabled implies
\* a non-null, non-empty cut-piece mesh is stored, and Save Result enabled
\* implies a non-null result mesh is stored.
C22_SaveButtonsHaveMeshes ==
    /\ btnSavePiece_ => (~cutPieceMesh_.null /\ Len(cutPieceMesh_.mesh.points) > 0)
    /\ btnSave_ => ~mwResultMesh_.null

\* C23: in every state reached after construction by loads and cuts, the
\* renderer's target slot holds the window's current target mesh, the mesh
\* the next cut will operate on; after a successful cut that is the result.
C23_RendererShowsCurrentTarget == targetMesh_ = mwTargetMesh_

=============================================================================
